---- MODULE Spec2Model ----
(***************************************************************************)
(* Model of src/main.c: TCPWM in PWM mode with dual compare/capture.       *)
(*                                                                         *)
(* The main thread is modelled statement by statement through pc; the UART *)
(* interrupt (completion of the asynchronous read followed by the          *)
(* registered callback uart_event_handler) may run between any two         *)
(* statements of the main thread once interrupts are enabled.              *)
(*                                                                         *)
(* completed, processed, hw_ops and printed are history variables: they   *)
(* record what the program did and are read by no action's guard.         *)
(***************************************************************************)
EXTENDS Integers, Sequences, FiniteSets, TLC

VARIABLES
    pc,              \* position of the main thread
    result,          \* main: cy_rslt_t result
    assert_site,     \* "none", or the function whose CY_ASSERT(0) halted the CPU
    period_reg,      \* TCPWM PERIOD register (design file)
    cc0_reg,         \* TCPWM CC0 register as start-up reads it (design file)
    cc1_reg,         \* TCPWM CC1 register as start-up reads it (design file)
    cc0_buf,         \* TCPWM CC0_BUFF register
    cc1_buf,         \* TCPWM CC1_BUFF register
    period,          \* uint32_t period
    compare0_value,  \* int32_t compare0_value
    compare1_value,  \* int32_t compare1_value
    uart_read_flag,  \* volatile bool uart_read_flag
    uart_read_value, \* main: char uart_read_value (target of the async read)
    rx_pending,      \* an asynchronous read is in progress
    event,           \* event flags of the last uart_event_handler invocation
    key_pressed,     \* process_key_press: char key_pressed
    completed,       \* history: characters whose asynchronous read completed
    processed,       \* history: characters passed to process_key_press
    hw_ops,          \* history: TCPWM operations issued by the last call
    printed          \* history: what the last call of process_key_press printed

vars == <<pc, result, assert_site, period_reg, cc0_reg, cc1_reg, cc0_buf,
          cc1_buf, period, compare0_value, compare1_value, uart_read_flag,
          uart_read_value, rx_pending, event, key_pressed, completed,
          processed, hw_ops, printed>>

(***************************************************************************)
(* Bounds and constants                                                    *)
(***************************************************************************)

\* number of characters received over the UART in one run
MaxChars == 2

COMPARE_VALUE_DELTA == 100

Int32Max == 2147483647

Int32Min == (-Int32Max) - 1

\* 's', 'w', 'a', 'd' and one representative ("x") of every other character
Chars == {"s", "w", "a", "d", "x"}

\* PERIOD values of the design file; the largest has period + 100 = INT32_MAX
Periods == {0, 50, 250, Int32Max - COMPARE_VALUE_DELTA}

\* CC0 / CC1 values of the design file for a given PERIOD: within [0, period]
CompareConfigs(p) == {v \in {0, 50, p} : v <= p}

CY_RSLT_SUCCESS == "CY_RSLT_SUCCESS"

CybspResults == {CY_RSLT_SUCCESS, "CY_RSLT_ERROR"}

CYHAL_UART_IRQ_RX_DONE == "RX_DONE"

CYHAL_UART_IRQ_RX_ERROR == "RX_ERROR"

(***************************************************************************)
(* C arithmetic                                                            *)
(***************************************************************************)

\* (int32_t)u for a uint32_t u: two's complement reinterpretation
ToInt32(u) == IF u > Int32Max THEN (u - Int32Max - 1) + Int32Min ELSE u

\* x > p for int32_t x and uint32_t p: x is converted to uint32_t first, so
\* a negative x compares as x + 2^32 (written without forming 2^32)
GtIntUint(x, p) ==
    IF x < 0 THEN (x - Int32Min) > (p - Int32Max - 1) ELSE x > p

(***************************************************************************)
(* print_instructions: what the printed text promises for each key         *)
(***************************************************************************)
print_instructions ==
    [w |-> "increase the duty cycle",
     s |-> "decrease the duty cycle",
     a |-> "shift waveform towards left",
     d |-> "shift waveform towards right"]

(***************************************************************************)
(* process_key_press: the cases of the switch, as <<compare0, compare1>>   *)
(***************************************************************************)
CaseS(c0, c1, p) ==
    LET n0 == c0 + COMPARE_VALUE_DELTA
        n1 == c1 + COMPARE_VALUE_DELTA
    IN  << IF GtIntUint(n0, p) THEN ToInt32(p) ELSE n0,
           IF GtIntUint(n1, p) THEN ToInt32(p) ELSE n1 >>

\* faulty variant of CaseW: adds the delta as case 's' does
CaseW_Adds(c0, c1, p) ==
    LET n0 == c0 + COMPARE_VALUE_DELTA
        n1 == c1 + COMPARE_VALUE_DELTA
    IN  << IF GtIntUint(n0, p) THEN ToInt32(p) ELSE n0,
           IF GtIntUint(n1, p) THEN ToInt32(p) ELSE n1 >>

CaseW(c0, c1, p) ==
    LET n0 == c0 - COMPARE_VALUE_DELTA
        n1 == c1 - COMPARE_VALUE_DELTA
    IN  << IF n0 < 0 THEN 0 ELSE n0,
           IF n1 < 0 THEN 0 ELSE n1 >>

\* faulty variant of CaseA: subtracts the delta from compare1 as well
CaseA_BothSubtract(c0, c1, p) ==
    LET n0 == c0 - COMPARE_VALUE_DELTA
        n1 == c1 - COMPARE_VALUE_DELTA
    IN  << IF n0 < 0 THEN 0 ELSE n0,
           IF GtIntUint(n1, p) THEN ToInt32(p) ELSE n1 >>

CaseA(c0, c1, p) ==
    LET n0 == c0 - COMPARE_VALUE_DELTA
        n1 == c1 + COMPARE_VALUE_DELTA
    IN  << IF n0 < 0 THEN 0 ELSE n0,
           IF GtIntUint(n1, p) THEN ToInt32(p) ELSE n1 >>

\* faulty variant of CaseD: compare0 is not clamped to period
CaseD_NoUpperClamp(c0, c1, p) ==
    LET n0 == c0 + COMPARE_VALUE_DELTA
        n1 == c1 - COMPARE_VALUE_DELTA
    IN  << n0,
           IF n1 < 0 THEN 0 ELSE n1 >>

\* faulty variant of CaseD: compare1 is left as it was
CaseD_Compare1Untouched(c0, c1, p) ==
    LET n0 == c0 + COMPARE_VALUE_DELTA
    IN  << IF GtIntUint(n0, p) THEN ToInt32(p) ELSE n0,
           c1 >>

CaseD(c0, c1, p) ==
    LET n0 == c0 + COMPARE_VALUE_DELTA
        n1 == c1 - COMPARE_VALUE_DELTA
    IN  << IF GtIntUint(n0, p) THEN ToInt32(p) ELSE n0,
           IF n1 < 0 THEN 0 ELSE n1 >>

\* the keys with a case label
ValidKeys == {"s", "w", "a", "d"}

\* the switch statement: new <<compare0, compare1>>; default leaves both
SwitchKey(key, c0, c1, p) ==
    CASE key = "s" -> CaseS(c0, c1, p)
      [] key = "w" -> CaseW(c0, c1, p)
      [] key = "a" -> CaseA(c0, c1, p)
      [] key = "d" -> CaseD(c0, c1, p)
      [] OTHER     -> <<c0, c1>>

\* what process_key_press prints after "Pressed key": the compare values
\* for a case label (lines 264-266), the complaint and the instructions in
\* the default case
SwitchPrints(key) ==
    IF key \in ValidKeys
    THEN <<"Period, Compare0, Compare1">>
    ELSE <<"Wrong key pressed", "Instructions">>

\* faulty variant of SwitchReturn: default breaks instead of returning
SwitchReturn_NoReturn(key) == "set_cc0"

\* where process_key_press continues after the switch: default returns
SwitchReturn(key) == IF key \in ValidKeys THEN "set_cc0" ELSE "delay"

\* faulty variant of uart_event_handler: tests event == RX_DONE
uart_event_handler_ExactMatch(ev, flag) ==
    IF ev = {CYHAL_UART_IRQ_RX_DONE}
    THEN <<TRUE, FALSE>>
    ELSE <<flag, TRUE>>

\* faulty variant of uart_event_handler: sets the flag on every event
uart_event_handler_FlagOnError(ev, flag) == <<TRUE, FALSE>>

(***************************************************************************)
(* uart_event_handler: <<new uart_read_flag, assertion failed>>            *)
(***************************************************************************)
uart_event_handler(ev, flag) ==
    IF CYHAL_UART_IRQ_RX_DONE \in ev
    THEN <<TRUE, FALSE>>
    ELSE <<flag, TRUE>>

(***************************************************************************)
(* Initial state: reset, registers as the design file configures them      *)
(***************************************************************************)
Init ==
    /\ pc = "init"
    /\ result = "unset"
    /\ assert_site = "none"
    /\ period_reg \in Periods
    /\ cc0_reg \in CompareConfigs(period_reg)
    /\ cc1_reg \in CompareConfigs(period_reg)
    \* the buffer registers start out as copies of the compare registers
    /\ cc0_buf = cc0_reg
    /\ cc1_buf = cc1_reg
    /\ period = 0
    /\ compare0_value = 0
    /\ compare1_value = 0
    /\ uart_read_flag = FALSE
    /\ uart_read_value \in Chars
    /\ rx_pending = FALSE
    /\ event = {}
    /\ key_pressed = "none"
    /\ completed = <<>>
    /\ processed = <<>>
    /\ hw_ops = <<>>
    /\ printed = <<>>

Running == assert_site = "none"

(***************************************************************************)
(* main, start-up (lines 97-145)                                           *)
(***************************************************************************)
Startup ==
    /\ Running
    /\ pc = "init"
    /\ \E r \in CybspResults :
          /\ result' = r
          /\ IF r # CY_RSLT_SUCCESS
             THEN /\ assert_site' = "main"
                  /\ UNCHANGED <<pc, period, compare0_value, compare1_value>>
             ELSE /\ period' = period_reg
                  /\ compare1_value' = ToInt32(cc1_reg)
                  /\ compare0_value' = ToInt32(cc0_reg)
                  /\ pc' = "read_async"
                  /\ UNCHANGED assert_site
    /\ UNCHANGED <<period_reg, cc0_reg, cc1_reg, cc0_buf, cc1_buf,
                   uart_read_flag, uart_read_value, rx_pending, event,
                   key_pressed, completed, processed, hw_ops, printed>>

(***************************************************************************)
(* main, the loop (lines 147-168)                                          *)
(***************************************************************************)
ReadAsync ==
    /\ Running
    /\ pc = "read_async"
    /\ rx_pending' = TRUE
    /\ pc' = "check"
    /\ UNCHANGED <<result, assert_site, period_reg, cc0_reg, cc1_reg, cc0_buf,
                   cc1_buf, period, compare0_value, compare1_value,
                   uart_read_flag, uart_read_value, event, key_pressed,
                   completed, processed, hw_ops, printed>>

CheckFlag ==
    /\ Running
    /\ pc = "check"
    /\ pc' = IF uart_read_flag THEN "clear" ELSE "delay"
    /\ UNCHANGED <<result, assert_site, period_reg, cc0_reg, cc1_reg, cc0_buf,
                   cc1_buf, period, compare0_value, compare1_value,
                   uart_read_flag, uart_read_value, rx_pending, event,
                   key_pressed, completed, processed, hw_ops, printed>>

ClearFlag ==
    /\ Running
    /\ pc = "clear"
    /\ uart_read_flag' = FALSE
    /\ pc' = "call"
    /\ UNCHANGED <<result, assert_site, period_reg, cc0_reg, cc1_reg, cc0_buf,
                   cc1_buf, period, compare0_value, compare1_value,
                   uart_read_value, rx_pending, event, key_pressed,
                   completed, processed, hw_ops, printed>>

CallProcessKeyPress ==
    /\ Running
    /\ pc = "call"
    /\ key_pressed' = uart_read_value
    /\ processed' = Append(processed, uart_read_value)
    /\ hw_ops' = <<>>
    /\ printed' = <<"Pressed key">>
    /\ pc' = "switch"
    /\ UNCHANGED <<result, assert_site, period_reg, cc0_reg, cc1_reg, cc0_buf,
                   cc1_buf, period, compare0_value, compare1_value,
                   uart_read_flag, uart_read_value, rx_pending, event,
                   completed>>

Delay ==
    /\ Running
    /\ pc = "delay"
    /\ pc' = "read_async"
    /\ UNCHANGED <<result, assert_site, period_reg, cc0_reg, cc1_reg, cc0_buf,
                   cc1_buf, period, compare0_value, compare1_value,
                   uart_read_flag, uart_read_value, rx_pending, event,
                   key_pressed, completed, processed, hw_ops, printed>>

\* faulty variant of Switch: case 's' assigns period = compare0_value
Switch_ClampsPeriod ==
    /\ assert_site = "none"
    /\ pc = "switch"
    /\ LET new == SwitchKey(key_pressed, compare0_value, compare1_value, period)
           n0  == compare0_value + COMPARE_VALUE_DELTA
       IN  /\ compare1_value' = new[2]
           /\ IF key_pressed = "s" /\ GtIntUint(n0, period)
              THEN period' = n0 /\ compare0_value' = n0
              ELSE period' = period /\ compare0_value' = new[1]
    /\ pc' = SwitchReturn(key_pressed)
    /\ printed' = printed \o SwitchPrints(key_pressed)
    /\ UNCHANGED <<result, assert_site, period_reg, cc0_reg, cc1_reg, cc0_buf,
                   cc1_buf, uart_read_flag, uart_read_value,
                   rx_pending, event, key_pressed, completed, processed,
                   hw_ops>>

\* faulty variant of SetCompare1BufVal: writes compare0_value
SetCompare1BufVal_WritesCompare0 ==
    /\ assert_site = "none"
    /\ pc = "set_cc1"
    /\ cc1_buf' = compare0_value
    /\ hw_ops' = Append(hw_ops, <<"CC1_BUFF", compare0_value>>)
    /\ pc' = "swap"
    /\ UNCHANGED <<result, assert_site, period_reg, cc0_reg, cc1_reg, cc0_buf,
                   period, compare0_value, compare1_value, uart_read_flag,
                   uart_read_value, rx_pending, event, key_pressed, completed,
                   processed, printed>>

(***************************************************************************)
(* process_key_press (lines 216-279)                                       *)
(***************************************************************************)
Switch ==
    /\ Running
    /\ pc = "switch"
    /\ LET new == SwitchKey(key_pressed, compare0_value, compare1_value, period)
       IN  /\ compare0_value' = new[1]
           /\ compare1_value' = new[2]
    /\ pc' = SwitchReturn(key_pressed)
    /\ printed' = printed \o SwitchPrints(key_pressed)
    /\ UNCHANGED <<result, assert_site, period_reg, cc0_reg, cc1_reg, cc0_buf,
                   cc1_buf, period, uart_read_flag, uart_read_value,
                   rx_pending, event, key_pressed, completed, processed,
                   hw_ops>>

SetCompare0BufVal ==
    /\ Running
    /\ pc = "set_cc0"
    /\ cc0_buf' = compare0_value
    /\ hw_ops' = Append(hw_ops, <<"CC0_BUFF", compare0_value>>)
    /\ pc' = "set_cc1"
    /\ UNCHANGED <<result, assert_site, period_reg, cc0_reg, cc1_reg, cc1_buf,
                   period, compare0_value, compare1_value, uart_read_flag,
                   uart_read_value, rx_pending, event, key_pressed, completed,
                   processed, printed>>

SetCompare1BufVal ==
    /\ Running
    /\ pc = "set_cc1"
    /\ cc1_buf' = compare1_value
    /\ hw_ops' = Append(hw_ops, <<"CC1_BUFF", compare1_value>>)
    /\ pc' = "swap"
    /\ UNCHANGED <<result, assert_site, period_reg, cc0_reg, cc1_reg, cc0_buf,
                   period, compare0_value, compare1_value, uart_read_flag,
                   uart_read_value, rx_pending, event, key_pressed, completed,
                   processed, printed>>

TriggerCaptureOrSwap ==
    /\ Running
    /\ pc = "swap"
    /\ hw_ops' = Append(hw_ops, <<"SWAP", cc0_buf, cc1_buf>>)
    /\ pc' = "delay"
    /\ UNCHANGED <<result, assert_site, period_reg, cc0_reg, cc1_reg, cc0_buf,
                   cc1_buf, period, compare0_value, compare1_value,
                   uart_read_flag, uart_read_value, rx_pending, event,
                   key_pressed, completed, processed, printed>>

(***************************************************************************)
(* UART interrupt                                                          *)
(***************************************************************************)
\* interrupts are enabled (line 136) and the CPU is not halted
IrqEnabled == Running /\ pc # "init"

\* the pending read completes with character ch; the callback is invoked
\* with RX_DONE, possibly together with RX_ERROR
RxDone ==
    /\ IrqEnabled
    /\ rx_pending
    /\ Len(completed) < MaxChars
    /\ \E ch \in Chars, ev \in {{CYHAL_UART_IRQ_RX_DONE},
                                {CYHAL_UART_IRQ_RX_DONE, CYHAL_UART_IRQ_RX_ERROR}} :
          /\ uart_read_value' = ch
          /\ completed' = Append(completed, ch)
          /\ event' = ev
          /\ uart_read_flag' = uart_event_handler(ev, uart_read_flag)[1]
          /\ assert_site' = IF uart_event_handler(ev, uart_read_flag)[2]
                            THEN "uart_event_handler" ELSE assert_site
    /\ rx_pending' = FALSE
    /\ UNCHANGED <<pc, result, period_reg, cc0_reg, cc1_reg, cc0_buf, cc1_buf,
                   period, compare0_value, compare1_value, key_pressed,
                   processed, hw_ops, printed>>

\* a receive error (overflow, framing, parity) without a completed read
RxError ==
    /\ IrqEnabled
    /\ LET ev == {CYHAL_UART_IRQ_RX_ERROR}
       IN  /\ event' = ev
           /\ uart_read_flag' = uart_event_handler(ev, uart_read_flag)[1]
           /\ assert_site' = IF uart_event_handler(ev, uart_read_flag)[2]
                             THEN "uart_event_handler" ELSE assert_site
    /\ UNCHANGED <<pc, result, period_reg, cc0_reg, cc1_reg, cc0_buf, cc1_buf,
                   period, compare0_value, compare1_value, uart_read_value,
                   rx_pending, key_pressed, completed, processed, hw_ops,
                   printed>>

MainStep ==
    \/ Startup
    \/ ReadAsync
    \/ CheckFlag
    \/ ClearFlag
    \/ CallProcessKeyPress
    \/ Switch
    \/ SetCompare0BufVal
    \/ SetCompare1BufVal
    \/ TriggerCaptureOrSwap
    \/ Delay

Next ==
    \/ MainStep
    \/ RxDone
    \/ RxError

Spec == Init /\ [][Next]_vars

\* the main loop keeps running as long as the CPU is not halted
FairSpec == Spec /\ WF_vars(MainStep)

(***************************************************************************)
(* Properties                                                              *)
(***************************************************************************)
Min(a, b) == IF a < b THEN a ELSE b

Max(a, b) == IF a > b THEN a ELSE b

IsPrefix(s, t) == Len(s) <= Len(t) /\ SubSeq(t, 1, Len(s)) = s

\* a step of the switch statement in process_key_press
SwitchStep == pc = "switch" /\ pc' # "switch"

\* process_key_press is not executing
Returned == pc \notin {"switch", "set_cc0", "set_cc1", "swap"}

\* C1: with the start-up values within [0, period], both compare values
\* stay within [0, period] in every state; the upper comparison is the C
\* one (int32_t against uint32_t).
C1_ClampInvariant ==
    /\ 0 <= compare0_value
    /\ ~GtIntUint(compare0_value, period)
    /\ 0 <= compare1_value
    /\ ~GtIntUint(compare1_value, period)

\* C1 witness: 's' pressed with compare0 at the largest period already
C1_Witness ==
    /\ pc = "set_cc0"
    /\ key_pressed = "s"
    /\ period = Int32Max - COMPARE_VALUE_DELTA
    /\ cc0_reg = period
    /\ compare0_value = period
    /\ processed = <<"s">>

\* C2: each key yields the clamped sum or difference with the delta 100:
\* 's' (min, min), 'w' (max, max), 'a' (max, min), 'd' (min, max).
C2_ClampedDelta ==
    [][SwitchStep =>
         LET c0 == compare0_value
             c1 == compare1_value
             up(c) == Min(c + 100, period)
             dn(c) == Max(c - 100, 0)
         IN  /\ key_pressed = "s" =>
                    compare0_value' = up(c0) /\ compare1_value' = up(c1)
             /\ key_pressed = "w" =>
                    compare0_value' = dn(c0) /\ compare1_value' = dn(c1)
             /\ key_pressed = "a" =>
                    compare0_value' = dn(c0) /\ compare1_value' = up(c1)
             /\ key_pressed = "d" =>
                    compare0_value' = up(c0) /\ compare1_value' = dn(c1)]_vars

\* C2 witness: 'a' from (50, 250) with period 250 clamps both values
C2_Witness ==
    /\ pc = "set_cc0"
    /\ processed = <<"a">>
    /\ period = 250 /\ cc0_reg = 50 /\ cc1_reg = 250
    /\ compare0_value = 0 /\ compare1_value = 250

\* C3: a valid command writes compare0_value to CC0_BUFF, then
\* compare1_value to CC1_BUFF, then triggers exactly one swap; at the swap
\* the buffered pair is (compare0_value, compare1_value).
C3_WriteThenSwap ==
    /\ pc = "swap" =>
          /\ cc0_buf = compare0_value
          /\ cc1_buf = compare1_value
          /\ hw_ops = << <<"CC0_BUFF", compare0_value>>,
                         <<"CC1_BUFF", compare1_value>> >>
    /\ (Returned /\ pc # "call" /\ key_pressed \in ValidKeys) =>
          hw_ops = << <<"CC0_BUFF", compare0_value>>,
                      <<"CC1_BUFF", compare1_value>>,
                      <<"SWAP", compare0_value, compare1_value>> >>

\* C3 witness: a valid command has returned with two different values
C3_Witness ==
    /\ pc = "delay"
    /\ key_pressed \in ValidKeys
    /\ Len(hw_ops) = 3
    /\ compare0_value # compare1_value

\* C4: every character whose read completed is passed to process_key_press
\* exactly once and with its value: the processed characters are a prefix
\* of the completed ones, and none is outstanding once the loop has found
\* the flag clear.
C4_NoLostOrDuplicated ==
    /\ IsPrefix(processed, completed)
    /\ (pc = "delay" /\ ~uart_read_flag) => processed = completed

\* C5 as stated: an assertion fails only in main, on a failed cybsp_init
C5_OnlyInitAssert ==
    assert_site # "none" =>
        assert_site = "main" /\ pc = "init" /\ result # CY_RSLT_SUCCESS

\* C5 as amended: an assertion fails only in main on a failed cybsp_init,
\* or in uart_event_handler on an event without RX_DONE; no RX_DONE event
\* and no key leads to a failed assertion.
C5_AssertSites ==
    assert_site # "none" =>
        \/ /\ assert_site = "main"
           /\ pc = "init"
           /\ result \notin {"unset", CY_RSLT_SUCCESS}
        \/ /\ assert_site = "uart_event_handler"
           /\ pc # "init"
           /\ result = CY_RSLT_SUCCESS
           /\ CYHAL_UART_IRQ_RX_DONE \notin event

\* C5 witness: the handler's assertion fails after a key was processed
C5_Witness ==
    /\ assert_site = "uart_event_handler"
    /\ Len(processed) >= 1
    /\ event = {CYHAL_UART_IRQ_RX_ERROR}

\* C6: period is fetched once at start-up and no later step changes it or
\* the PERIOD register.
C6_PeriodReadOnly ==
    /\ [](pc # "init" => period = period_reg)
    /\ [][pc # "init" => (period' = period /\ period_reg' = period_reg)]_vars

\* C6 witness: two keys were processed and the compare values moved
C6_Witness ==
    /\ pc = "delay"
    /\ Len(processed) = 2
    /\ period = 250
    /\ compare0_value # cc0_reg
    /\ compare1_value # cc1_reg

\* the key for which print_instructions promises the given effect
KeyFor(effect) == CHOOSE k \in {"w", "s"} : print_instructions[k] = effect

C8_SumUnchanged ==
    [][(SwitchStep /\ key_pressed \in {"a", "d"}) =>
          (compare0_value' - compare0_value)
          + (compare1_value' - compare1_value) = 0]_vars

\* neither value is clamped when the key is processed
Unclamped(key, c0, c1, p) ==
    \/ key = "a" /\ c0 >= 100 /\ c1 <= p - 100
    \/ key = "d" /\ c1 >= 100 /\ c0 <= p - 100

\* the key that shifts the other way
Opposite(key) == IF key = "a" THEN "d" ELSE "a"

\* C8 as amended: when neither value is clamped, 'a' and 'd' leave
\* compare0 + compare1 unchanged and the opposite key restores the pair.
C8_SumUnchangedUnclamped ==
    [][(/\ SwitchStep
        /\ key_pressed \in {"a", "d"}
        /\ Unclamped(key_pressed, compare0_value, compare1_value, period)) =>
          /\ (compare0_value' - compare0_value)
             + (compare1_value' - compare1_value) = 0
          /\ compare0_value' # compare0_value
          /\ SwitchKey(Opposite(key_pressed), compare0_value',
                       compare1_value', period)
               = <<compare0_value, compare1_value>>]_vars

\* C8 witness: 'a' then 'd' from (250, 50) with period 250, no clamping
C8_Witness ==
    /\ pc = "set_cc0"
    /\ processed = <<"a", "d">>
    /\ period = 250 /\ cc0_reg = 250 /\ cc1_reg = 50
    /\ compare0_value = 250 /\ compare1_value = 50

\* C9: a key other than 's', 'w', 'a', 'd' changes neither compare value
\* nor period, writes no buffer register and triggers no swap; after the
\* pressed key only the complaint and the instructions are printed.
C9_WrongKeyNoEffect ==
    /\ []((Returned /\ pc # "call" /\ key_pressed \notin ValidKeys
            /\ key_pressed # "none") =>
             /\ hw_ops = <<>>
             /\ printed = <<"Pressed key", "Wrong key pressed",
                            "Instructions">>)
    /\ [][(SwitchStep /\ key_pressed \notin ValidKeys) =>
             /\ pc' = "delay"
             /\ UNCHANGED <<compare0_value, compare1_value, period,
                            period_reg, cc0_buf, cc1_buf, hw_ops>>]_vars
    /\ [][(cc0_buf' # cc0_buf \/ cc1_buf' # cc1_buf
             \/ Len(hw_ops') > Len(hw_ops)) =>
             key_pressed \in ValidKeys]_vars

\* C9 witness: a wrong key was processed after a valid one
C9_Witness ==
    /\ pc = "delay"
    /\ processed = <<"d", "x">>
    /\ key_pressed = "x"
    /\ hw_ops = <<>>

\* C10: while the CPU is not halted, a set flag leads to the flag being
\* cleared and process_key_press being called; the flag is set only by an
\* RX_DONE callback of a completed read, and process_key_press is called
\* only after the flag was found set, with a value a completed read wrote.
C10_KeyTakesEffect ==
    /\ uart_read_flag ~> (pc = "switch" \/ ~Running)
    /\ [][(uart_read_flag' /\ ~uart_read_flag) =>
            /\ CYHAL_UART_IRQ_RX_DONE \in event'
            /\ Len(completed') = Len(completed) + 1]_vars
    /\ [][(pc = "check" /\ pc' = "clear") => uart_read_flag]_vars
    /\ [](pc \in {"clear", "call"} =>
            /\ Len(completed) > Len(processed)
            /\ uart_read_value = completed[Len(completed)])

\* C10 witness: process_key_press is entered for a received character
C10_Witness ==
    /\ pc = "switch"
    /\ ~uart_read_flag
    /\ completed = <<"w">>
    /\ processed = <<"w">>

====
